---- MODULE Spec2Model ----
(***************************************************************************)
(* A model of KubaGame.py: the KubaGame object (board, turn, winner,       *)
(* marble tallies, no-go move, the two scratch fields and the two          *)
(* KubaPlayer objects) and its one mutating entry point, make_move, with   *)
(* the four push routines, the legal-move scan and update_marbles          *)
(* translated statement by statement.                                      *)
(*                                                                         *)
(* An object is a record; a method that mutates it takes the record and    *)
(* returns the mutated record together with its return value and the line  *)
(* of the return statement that ended it.                                  *)
(***************************************************************************)
EXTENDS Integers, Sequences, FiniteSets, TLC

\* Python's None, for the fields that hold a name or a marble colour.
None == "None"
\* Python's None, for the fields that hold a tuple or a board.
NoneTuple == << >>

\* range(7): the rows and the columns of the board.
Size == 7
Rows == 0 .. (Size - 1)
Last == Size - 1

\* KubaPlayer.__init__: a player with nothing captured.
KubaPlayer(name, color) ==
    [name |-> name, color |-> color, red |-> 0, opponent_marbles |-> 0]

\* The board literal of KubaGame.__init__, row by row.
InitialRows ==
    << << "W", "W", "X", "X", "X", "B", "B" >>,
       << "W", "W", "X", "R", "X", "B", "B" >>,
       << "X", "X", "R", "R", "R", "X", "W" >>,
       << "X", "R", "R", "R", "R", "R", "X" >>,
       << "X", "X", "R", "R", "R", "X", "X" >>,
       << "B", "B", "X", "R", "X", "W", "W" >>,
       << "B", "B", "X", "X", "X", "W", "W" >> >>

\* The same literal indexed as Python indexes it: board[row][column] from 0.
InitialBoard == [row \in Rows |-> [column \in Rows |-> InitialRows[row + 1][column + 1]]]

\* KubaGame.__init__(pc_tup_1, pc_tup_2).
KubaGame(pc_tup_1, pc_tup_2) ==
    [ players         |-> << KubaPlayer(pc_tup_1[1], pc_tup_1[2]),
                             KubaPlayer(pc_tup_2[1], pc_tup_2[2]) >>,
      winner          |-> None,
      turn            |-> None,
      board           |-> InitialBoard,
      red             |-> 13,
      white           |-> 8,
      black           |-> 8,
      no_go_move      |-> NoneTuple,
      captured_marble |-> None,
      temp_board      |-> NoneTuple ]

\* get_marble(corr_tup)
get_marble(self, corr_tup) == self.board[corr_tup[1]][corr_tup[2]]

\* get_marble_count()
get_marble_count(self) == << self.white, self.black, self.red >>

Max(S) == CHOOSE x \in S : \A y \in S : y <= x
Min(S) == CHOOSE x \in S : \A y \in S : x <= y

\* The value a push routine hands back: its return value, the object as it
\* left it, and the line of its return statement.
Pushed(ret, self, line) == [ret |-> ret, self |-> self, line |-> line]

\* The no-go test without its comparison of the direction letter: every
\* push from the cell of the no-go move is refused.
IsNoGo_any_direction(self, coor_tup, letter) ==
    /\ self.no_go_move # NoneTuple
    /\ coor_tup[1] = self.no_go_move[1]
    /\ coor_tup[2] = self.no_go_move[2]

\* "If move undoes opponent's previous": the test of the no-go move that each
\* push routine makes against its own direction letter.
IsNoGo(self, coor_tup, letter) ==
    /\ self.no_go_move # NoneTuple
    /\ coor_tup[1] = self.no_go_move[1]
    /\ coor_tup[2] = self.no_go_move[2]
    /\ self.no_go_move[3] = letter

\* move_left without the test of lines 306-311: a push that shoves the
\* player's own marble off the left edge goes through as a capture.
move_left_without_own_color_test(self, coor_tup, player) ==
    LET row    == coor_tup[1]
        column == coor_tup[2]
        tb     == self.board
        s0     == [self EXCEPT !.temp_board = tb, !.captured_marble = None]
        blanks == {num \in 0 .. column : tb[row][num] = "X"}
        min    == IF blanks = {} THEN 0 ELSE Max(blanks)
        leftmost == tb[row][min]
        captures == min = 0 /\ leftmost # "X"
        inverse_bool == min = 0 /\ leftmost = "X"
        s1     == IF captures THEN [s0 EXCEPT !.captured_marble = leftmost] ELSE s0
        moved  == [tb EXCEPT ![row] =
                     [num \in Rows |->
                        IF num >= min /\ num < column THEN tb[row][num + 1]
                        ELSE IF num = column THEN "X"
                        ELSE tb[row][num]]]
    IN  IF column # Last /\ tb[row][column + 1] # "X" THEN Pushed(FALSE, s0, 293)
        ELSE IF IsNoGo(s1, coor_tup, "L") THEN Pushed(FALSE, s1, 323)
        ELSE Pushed(TRUE,
                    [s1 EXCEPT !.temp_board = moved,
                               !.no_go_move = IF inverse_bool THEN << row, min, "R" >>
                                              ELSE NoneTuple],
                    340)

\* move_left(coor_tup, player)
move_left(self, coor_tup, player) ==
    LET row    == coor_tup[1]
        column == coor_tup[2]
        tb     == self.board
        s0     == [self EXCEPT !.temp_board = tb, !.captured_marble = None]
        blanks == {num \in 0 .. column : tb[row][num] = "X"}
        min    == IF blanks = {} THEN 0 ELSE Max(blanks)
        leftmost == tb[row][min]
        captures == min = 0 /\ leftmost # "X"
        inverse_bool == min = 0 /\ leftmost = "X"
        s1     == IF captures THEN [s0 EXCEPT !.captured_marble = leftmost] ELSE s0
        moved  == [tb EXCEPT ![row] =
                     [num \in Rows |->
                        IF num >= min /\ num < column THEN tb[row][num + 1]
                        ELSE IF num = column THEN "X"
                        ELSE tb[row][num]]]
    IN  IF column # Last /\ tb[row][column + 1] # "X" THEN Pushed(FALSE, s0, 293)
        ELSE IF min = 0 /\ leftmost = player.color THEN Pushed(FALSE, s0, 311)
        ELSE IF IsNoGo(s1, coor_tup, "L") THEN Pushed(FALSE, s1, 323)
        ELSE Pushed(TRUE,
                    [s1 EXCEPT !.temp_board = moved,
                               !.no_go_move = IF inverse_bool THEN << row, min, "R" >>
                                              ELSE NoneTuple],
                    340)

\* move_right recording its own letter in the no-go move, not the letter of
\* the push that would undo it.
move_right_recording_own_letter(self, coor_tup, player) ==
    LET row    == coor_tup[1]
        column == coor_tup[2]
        tb     == self.board
        s0     == [self EXCEPT !.temp_board = tb, !.captured_marble = None]
        blanks == {num \in column .. Last : tb[row][num] = "X"}
        max    == IF blanks = {} THEN Last ELSE Min(blanks)
        rightmost == tb[row][max]
        captures == max = Last /\ rightmost # "X"
        inverse_bool == max = Last /\ rightmost = "X"
        s1     == IF captures THEN [s0 EXCEPT !.captured_marble = rightmost] ELSE s0
        moved  == [tb EXCEPT ![row] =
                     [num \in Rows |->
                        IF num <= max /\ num > column THEN tb[row][num - 1]
                        ELSE IF num = column THEN "X"
                        ELSE tb[row][num]]]
    IN  IF column # 0 /\ tb[row][column - 1] # "X" THEN Pushed(FALSE, s0, 373)
        ELSE IF max = Last /\ rightmost = player.color THEN Pushed(FALSE, s0, 391)
        ELSE IF IsNoGo(s1, coor_tup, "R") THEN Pushed(FALSE, s1, 403)
        ELSE Pushed(TRUE,
                    [s1 EXCEPT !.temp_board = moved,
                               !.no_go_move = IF inverse_bool THEN << row, max, "R" >>
                                              ELSE NoneTuple],
                    419)

\* move_right(coor_tup, player)
move_right(self, coor_tup, player) ==
    LET row    == coor_tup[1]
        column == coor_tup[2]
        tb     == self.board
        s0     == [self EXCEPT !.temp_board = tb, !.captured_marble = None]
        blanks == {num \in column .. Last : tb[row][num] = "X"}
        max    == IF blanks = {} THEN Last ELSE Min(blanks)
        rightmost == tb[row][max]
        captures == max = Last /\ rightmost # "X"
        inverse_bool == max = Last /\ rightmost = "X"
        s1     == IF captures THEN [s0 EXCEPT !.captured_marble = rightmost] ELSE s0
        moved  == [tb EXCEPT ![row] =
                     [num \in Rows |->
                        IF num <= max /\ num > column THEN tb[row][num - 1]
                        ELSE IF num = column THEN "X"
                        ELSE tb[row][num]]]
    IN  IF column # 0 /\ tb[row][column - 1] # "X" THEN Pushed(FALSE, s0, 373)
        ELSE IF max = Last /\ rightmost = player.color THEN Pushed(FALSE, s0, 391)
        ELSE IF IsNoGo(s1, coor_tup, "R") THEN Pushed(FALSE, s1, 403)
        ELSE Pushed(TRUE,
                    [s1 EXCEPT !.temp_board = moved,
                               !.no_go_move = IF inverse_bool THEN << row, max, "L" >>
                                              ELSE NoneTuple],
                    419)

\* move_forward(coor_tup, player)
move_forward(self, coor_tup, player) ==
    LET row    == coor_tup[1]
        column == coor_tup[2]
        tb     == self.board
        s0     == [self EXCEPT !.temp_board = tb, !.captured_marble = None]
        blanks == {num \in 0 .. row : tb[num][column] = "X"}
        min    == IF blanks = {} THEN 0 ELSE Max(blanks)
        topmost == tb[min][column]
        captures == min = 0 /\ topmost # "X"
        inverse_bool == min = 0 /\ topmost = "X"
        s1     == IF captures THEN [s0 EXCEPT !.captured_marble = topmost] ELSE s0
        moved  == [num \in Rows |->
                     IF num >= min /\ num < row
                     THEN [tb[num] EXCEPT ![column] = tb[num + 1][column]]
                     ELSE IF num = row THEN [tb[num] EXCEPT ![column] = "X"]
                     ELSE tb[num]]
    IN  IF row # Last /\ tb[row + 1][column] # "X" THEN Pushed(FALSE, s0, 452)
        ELSE IF min = 0 /\ topmost = player.color THEN Pushed(FALSE, s0, 470)
        ELSE IF IsNoGo(s1, coor_tup, "F") THEN Pushed(FALSE, s1, 482)
        ELSE Pushed(TRUE,
                    [s1 EXCEPT !.temp_board = moved,
                               !.no_go_move = IF inverse_bool THEN << min, column, "B" >>
                                              ELSE NoneTuple],
                    498)

\* move_backward without the test of lines 526-531: a marble is pushed
\* whatever stands in the cell above it.
move_backward_without_space_test(self, coor_tup, player) ==
    LET row    == coor_tup[1]
        column == coor_tup[2]
        tb     == self.board
        s0     == [self EXCEPT !.temp_board = tb, !.captured_marble = None]
        blanks == {num \in row .. Last : tb[num][column] = "X"}
        max    == IF blanks = {} THEN Last ELSE Min(blanks)
        bottommost == tb[max][column]
        captures == max = Last /\ bottommost # "X"
        inverse_bool == max = Last /\ bottommost = "X"
        s1     == IF captures THEN [s0 EXCEPT !.captured_marble = bottommost] ELSE s0
        moved  == [num \in Rows |->
                     IF num <= max /\ num > row
                     THEN [tb[num] EXCEPT ![column] = tb[num - 1][column]]
                     ELSE IF num = row THEN [tb[num] EXCEPT ![column] = "X"]
                     ELSE tb[num]]
    IN  IF max = Last /\ bottommost = player.color THEN Pushed(FALSE, s0, 549)
        ELSE IF IsNoGo(s1, coor_tup, "B") THEN Pushed(FALSE, s1, 561)
        ELSE Pushed(TRUE,
                    [s1 EXCEPT !.temp_board = moved,
                               !.no_go_move = IF inverse_bool THEN << max, column, "F" >>
                                              ELSE NoneTuple],
                    576)

\* move_backward(coor_tup, player)
move_backward(self, coor_tup, player) ==
    LET row    == coor_tup[1]
        column == coor_tup[2]
        tb     == self.board
        s0     == [self EXCEPT !.temp_board = tb, !.captured_marble = None]
        blanks == {num \in row .. Last : tb[num][column] = "X"}
        max    == IF blanks = {} THEN Last ELSE Min(blanks)
        bottommost == tb[max][column]
        captures == max = Last /\ bottommost # "X"
        inverse_bool == max = Last /\ bottommost = "X"
        s1     == IF captures THEN [s0 EXCEPT !.captured_marble = bottommost] ELSE s0
        moved  == [num \in Rows |->
                     IF num <= max /\ num > row
                     THEN [tb[num] EXCEPT ![column] = tb[num - 1][column]]
                     ELSE IF num = row THEN [tb[num] EXCEPT ![column] = "X"]
                     ELSE tb[num]]
    IN  IF row # 0 /\ tb[row - 1][column] # "X" THEN Pushed(FALSE, s0, 531)
        ELSE IF max = Last /\ bottommost = player.color THEN Pushed(FALSE, s0, 549)
        ELSE IF IsNoGo(s1, coor_tup, "B") THEN Pushed(FALSE, s1, 561)
        ELSE Pushed(TRUE,
                    [s1 EXCEPT !.temp_board = moved,
                               !.no_go_move = IF inverse_bool THEN << max, column, "F" >>
                                              ELSE NoneTuple],
                    576)

\* update_marbles crediting every capture to the first player of the list.
update_marbles_crediting_first_player(self, cell_captured, curr) ==
    IF cell_captured = "R"
    THEN [self EXCEPT !.players[1].red = @ + 1, !.red = @ - 1]
    ELSE IF cell_captured = "W"
    THEN [self EXCEPT !.players[1].opponent_marbles = @ + 1, !.white = @ - 1]
    ELSE [self EXCEPT !.players[1].opponent_marbles = @ + 1, !.black = @ - 1]

\* update_marbles with every branch taking the marble from the black tally.
update_marbles_one_tally(self, cell_captured, curr) ==
    IF cell_captured = "R"
    THEN [self EXCEPT !.players[curr + 1].red = @ + 1, !.black = @ - 1]
    ELSE IF cell_captured = "W"
    THEN [self EXCEPT !.players[curr + 1].opponent_marbles = @ + 1, !.black = @ - 1]
    ELSE [self EXCEPT !.players[curr + 1].opponent_marbles = @ + 1, !.black = @ - 1]

\* update_marbles(cell_captured, player); the player is players[curr].
update_marbles(self, cell_captured, curr) ==
    IF cell_captured = "R"
    THEN [self EXCEPT !.players[curr + 1].red = @ + 1, !.red = @ - 1]
    ELSE IF cell_captured = "W"
    THEN [self EXCEPT !.players[curr + 1].opponent_marbles = @ + 1, !.white = @ - 1]
    ELSE [self EXCEPT !.players[curr + 1].opponent_marbles = @ + 1, !.black = @ - 1]

\* The four trial pushes make_move runs on one cell of the scan, in the
\* order of the source, each on the object as the one before left it.
TrialPushes(self, coor_tup, player) ==
    LET test_left     == move_left(self, coor_tup, player)
        test_right    == move_right(test_left.self, coor_tup, player)
        test_forward  == move_forward(test_right.self, coor_tup, player)
        test_backward == move_backward(test_forward.self, coor_tup, player)
    IN  [self |-> test_backward.self,
         any  |-> test_left.ret \/ test_right.ret \/ test_forward.ret \/ test_backward.ret]

\* The inner loop of the scan, "for column in range(7)", from `column` on:
\* it ends at the first cell of the player's colour with an accepted push
\* (the break), or at the end of the row.
RECURSIVE ScanColumns(_, _, _, _)
ScanColumns(self, player, row, column) ==
    IF column > Last THEN [self |-> self, hit |-> FALSE]
    ELSE IF self.board[row][column] = player.color
    THEN LET t == TrialPushes(self, << row, column >>, player)
         IN  IF t.any THEN [self |-> t.self, hit |-> TRUE]
             ELSE ScanColumns(t.self, player, row, column + 1)
    ELSE ScanColumns(self, player, row, column + 1)

\* The outer loop, "for row in range(7)", from `row` on: the break leaves
\* only the inner loop, so every row is scanned.
RECURSIVE ScanRows(_, _, _, _)
ScanRows(self, player, row, can_move) ==
    IF row > Last THEN [self |-> self, can_move |-> can_move]
    ELSE LET r == ScanColumns(self, player, row, 0)
         IN  ScanRows(r.self, player, row + 1, can_move \/ r.hit)

\* The scan with "if not can_move" never taken: a player is always held to
\* have a legal move.
LegalMoveScan_always_able(self, player) ==
    LET temp_no_go == self.no_go_move
        scanned    == ScanRows(self, player, 0, FALSE)
    IN  [self     |-> [scanned.self EXCEPT !.no_go_move = temp_no_go],
         can_move |-> TRUE]

\* The scan without line 209: the no-go move is left as the trial pushes
\* left it.
LegalMoveScan_without_restore(self, player) ==
    LET temp_no_go == self.no_go_move
        scanned    == ScanRows(self, player, 0, FALSE)
    IN  [self     |-> scanned.self,
         can_move |-> scanned.can_move]

\* The scan with line 209 clearing the no-go move instead of restoring it.
LegalMoveScan_clearing_no_go(self, player) ==
    LET temp_no_go == self.no_go_move
        scanned    == ScanRows(self, player, 0, FALSE)
    IN  [self     |-> [scanned.self EXCEPT !.no_go_move = NoneTuple],
         can_move |-> scanned.can_move]

\* The scan run with the no-go move cleared: its trial pushes are tested
\* against no forbidden move.
LegalMoveScan_without_no_go(self, player) ==
    LET temp_no_go == self.no_go_move
        scanned    == ScanRows([self EXCEPT !.no_go_move = NoneTuple], player, 0, FALSE)
    IN  [self     |-> [scanned.self EXCEPT !.no_go_move = temp_no_go],
         can_move |-> scanned.can_move]

\* Lines 195-209 of make_move: save the no-go move, scan, restore it.
LegalMoveScan(self, player) ==
    LET temp_no_go == self.no_go_move
        scanned    == ScanRows(self, player, 0, FALSE)
    IN  [self     |-> [scanned.self EXCEPT !.no_go_move = temp_no_go],
         can_move |-> scanned.can_move]

\* The value make_move hands back: its return value, the object as it left
\* it, the line of its return statement and, when it returned what the
\* requested push returned, the line of that push's return statement (else 0).
Returned(ret, self, line, push_line) ==
    [ret |-> ret, self |-> self, line |-> line, push_line |-> push_line]

\* Lines 221-230 of make_move: the push routine the direction letter names.
RequestedPush(self, coordinates, direction, player) ==
    IF direction = "L" THEN move_left(self, coordinates, player)
    ELSE IF direction = "R" THEN move_right(self, coordinates, player)
    ELSE IF direction = "F" THEN move_forward(self, coordinates, player)
    ELSE move_backward(self, coordinates, player)

\* The commit with the thresholds of line 249 read as "more than".
Commit_strict_thresholds(self, playername, curr) ==
    LET s1 == IF self.captured_marble # None
              THEN update_marbles(self, self.captured_marble, curr)
              ELSE self
        s2 == [s1 EXCEPT !.board = s1.temp_board]
        current_player   == s2.players[curr + 1]
        opponent_marbles == current_player.opponent_marbles
        player_red       == current_player.red
        s3 == IF opponent_marbles > 8 \/ player_red > 7
              THEN [s2 EXCEPT !.winner = playername]
              ELSE s2
    IN  [s3 EXCEPT !.turn = IF curr = 0 THEN s3.players[2].name ELSE s3.players[1].name]

\* Lines 232-260 of make_move, after an accepted push: capture bookkeeping,
\* commit of the board, winner, turn.
Commit(self, playername, curr) ==
    LET s1 == IF self.captured_marble # None
              THEN update_marbles(self, self.captured_marble, curr)
              ELSE self
        s2 == [s1 EXCEPT !.board = s1.temp_board]
        current_player   == s2.players[curr + 1]
        opponent_marbles == current_player.opponent_marbles
        player_red       == current_player.red
        s3 == IF opponent_marbles >= 8 \/ player_red >= 7
              THEN [s2 EXCEPT !.winner = playername]
              ELSE s2
    IN  [s3 EXCEPT !.turn = IF curr = 0 THEN s3.players[2].name ELSE s3.players[1].name]

\* Lines 153-156 of make_move: "Stores the name of the first player to make
\* a move."
FirstTurn(self, playername) ==
    IF self.turn = None THEN [self EXCEPT !.turn = playername] ELSE self

\* Lines 176-183 of make_move: the index of the player of that name in the
\* player list (the source's curr); the else branch of line 184 is the
\* caller's to test.
CurrOf(self, playername) ==
    IF self.players[1].name = playername THEN 0 ELSE 1

\* Lines 192-209 as make_move runs them for playername: on the object after
\* lines 153-156, for the player object of that name.
ScanFor(self, playername) ==
    LET s1 == FirstTurn(self, playername)
    IN  LegalMoveScan(s1, s1.players[CurrOf(s1, playername) + 1])

\* The early returns without the winner test of lines 163-165.
EarlyLine_without_winner_test(s1, playername, coordinates) ==
    IF s1.turn # playername THEN 161
    ELSE IF \E i \in DOMAIN coordinates : coordinates[i] < 0 \/ coordinates[i] > 6 THEN 170
    ELSE IF s1.players[1].name # playername /\ s1.players[2].name # playername THEN 185
    ELSE IF get_marble(s1, coordinates) # s1.players[CurrOf(s1, playername) + 1].color THEN 190
    ELSE 0

\* The early returns without the turn test of lines 158-161.
EarlyLine_without_turn_test(s1, playername, coordinates) ==
    IF s1.winner # None THEN 165
    ELSE IF \E i \in DOMAIN coordinates : coordinates[i] < 0 \/ coordinates[i] > 6 THEN 170
    ELSE IF s1.players[1].name # playername /\ s1.players[2].name # playername THEN 185
    ELSE IF get_marble(s1, coordinates) # s1.players[CurrOf(s1, playername) + 1].color THEN 190
    ELSE 0

\* Lines 158-190 of make_move, on the object after lines 153-156: the line
\* of the first return statement reached before the legal-move scan, 0 when
\* none is.
EarlyLine(s1, playername, coordinates) ==
    IF s1.turn # playername THEN 161
    ELSE IF s1.winner # None THEN 165
    ELSE IF \E i \in DOMAIN coordinates : coordinates[i] < 0 \/ coordinates[i] > 6 THEN 170
    ELSE IF s1.players[1].name # playername /\ s1.players[2].name # playername THEN 185
    ELSE IF get_marble(s1, coordinates) # s1.players[CurrOf(s1, playername) + 1].color THEN 190
    ELSE 0

\* make_move committing the temporary board as the legal-move scan left it,
\* not as the requested push left it.
make_move_committing_trial_board(self, playername, coordinates, direction, scan) ==
    LET s1    == FirstTurn(self, playername)
        early == EarlyLine(s1, playername, coordinates)
        curr  == CurrOf(s1, playername)
        current_player == s1.players[curr + 1]
        other_player   == s1.players[2 - curr]
        temp  == RequestedPush(scan.self, coordinates, direction, current_player)
    IN  IF early # 0 THEN Returned(FALSE, s1, early, 0)
        ELSE IF ~scan.can_move
        THEN Returned(FALSE, [scan.self EXCEPT !.winner = other_player.name], 214, 0)
        ELSE IF direction \notin {"L", "R", "F", "B"}
        THEN Returned(FALSE, scan.self, 230, 0)
        ELSE IF ~temp.ret THEN Returned(FALSE, temp.self, 237, temp.line)
        ELSE Returned(TRUE, Commit([temp.self EXCEPT !.temp_board = scan.self.temp_board],
                                  playername, curr), 260, temp.line)

\* make_move with line 213 naming the caller, not the other player, as the
\* winner when the caller has no legal move.
make_move_naming_the_caller(self, playername, coordinates, direction, scan) ==
    LET s1    == FirstTurn(self, playername)
        early == EarlyLine(s1, playername, coordinates)
        curr  == CurrOf(s1, playername)
        current_player == s1.players[curr + 1]
        other_player   == s1.players[2 - curr]
        temp  == RequestedPush(scan.self, coordinates, direction, current_player)
    IN  IF early # 0 THEN Returned(FALSE, s1, early, 0)
        ELSE IF ~scan.can_move
        THEN Returned(FALSE, [scan.self EXCEPT !.winner = current_player.name], 214, 0)
        ELSE IF direction \notin {"L", "R", "F", "B"}
        THEN Returned(FALSE, scan.self, 230, 0)
        ELSE IF ~temp.ret THEN Returned(FALSE, temp.self, 237, temp.line)
        ELSE Returned(TRUE, Commit(temp.self, playername, curr), 260, temp.line)

\* make_move(playername, coordinates, direction), given what its legal-move
\* scan (lines 192-209) yields: the scan reads neither coordinates nor
\* direction, so one evaluation of it serves every call by the same player
\* on the same object.
make_move_scanned(self, playername, coordinates, direction, scan) ==
    LET s1    == FirstTurn(self, playername)
        early == EarlyLine(s1, playername, coordinates)
        curr  == CurrOf(s1, playername)
        current_player == s1.players[curr + 1]
        other_player   == s1.players[2 - curr]
        temp  == RequestedPush(scan.self, coordinates, direction, current_player)
    IN  IF early # 0 THEN Returned(FALSE, s1, early, 0)
        ELSE IF ~scan.can_move
        THEN Returned(FALSE, [scan.self EXCEPT !.winner = other_player.name], 214, 0)
        ELSE IF direction \notin {"L", "R", "F", "B"}
        THEN Returned(FALSE, scan.self, 230, 0)
        ELSE IF ~temp.ret THEN Returned(FALSE, temp.self, 237, temp.line)
        ELSE Returned(TRUE, Commit(temp.self, playername, curr), 260, temp.line)

\* make_move(playername, coordinates, direction)
make_move(self, playername, coordinates, direction) ==
    make_move_scanned(self, playername, coordinates, direction, ScanFor(self, playername))

(***************************************************************************)
(* The state machine: one KubaGame object, built as the __main__ block     *)
(* builds it, and make_move called on it with any arguments.               *)
(***************************************************************************)

\* The constructor arguments of the __main__ block.
PlayerA == "PlayerA"
PlayerB == "PlayerB"
\* A name that no player was registered under.
Stranger == "Stranger"

\* The arguments make_move is called with: the registered names and an
\* unregistered one; every cell of the board and, for either coordinate, a
\* value below and a value above the board; the four direction letters and
\* a letter that is none of them.
PlayerNames == {PlayerA, PlayerB, Stranger}
Cells == Rows \X Rows
OffBoard == {<< 0 - 1, 0 >>, << Size, 0 >>, << 0, 0 - 1 >>, << 0, Size >>}
Coordinates == Cells \cup OffBoard
Directions == {"L", "R", "F", "B", "Z"}

\* A match played out by make_move calls that all return True, written as
\* the calls' arguments. Along it PlayerA pushes off four black marbles and
\* six red ones, then three more black ones, and with its last call walls in
\* the one black marble left, so that PlayerB has no push that is accepted.
\* The model checker follows this match, or one of the other Matches below,
\* and leaves it by at most MaxFree accepted calls of any other kind (calls
\* that return False are never limited), which keeps the search finite
\* while it reaches the states late in a match: the seventh red capture,
\* the eighth black one, the player with no legal move.
Script ==
    << << PlayerB, << 0, 6 >>, "B" >>, << PlayerA, << 3, 6 >>, "F" >>,
       << PlayerB, << 6, 0 >>, "R" >>, << PlayerA, << 0, 0 >>, "R" >>,
       << PlayerB, << 6, 2 >>, "L" >>, << PlayerA, << 0, 1 >>, "R" >>,
       << PlayerB, << 6, 0 >>, "R" >>, << PlayerA, << 0, 2 >>, "R" >>,
       << PlayerB, << 6, 2 >>, "L" >>, << PlayerA, << 0, 3 >>, "R" >>,
       << PlayerB, << 6, 0 >>, "R" >>, << PlayerA, << 0, 4 >>, "R" >>,
       << PlayerB, << 6, 2 >>, "L" >>, << PlayerA, << 1, 0 >>, "R" >>,
       << PlayerB, << 6, 0 >>, "R" >>, << PlayerA, << 1, 1 >>, "R" >>,
       << PlayerB, << 6, 2 >>, "L" >>, << PlayerA, << 1, 2 >>, "R" >>,
       << PlayerB, << 6, 0 >>, "R" >>, << PlayerA, << 1, 3 >>, "R" >>,
       << PlayerB, << 6, 2 >>, "L" >>, << PlayerA, << 1, 4 >>, "R" >>,
       << PlayerB, << 6, 0 >>, "R" >>, << PlayerA, << 2, 6 >>, "L" >>,
       << PlayerB, << 6, 2 >>, "L" >>, << PlayerA, << 2, 5 >>, "L" >>,
       << PlayerB, << 6, 0 >>, "R" >>, << PlayerA, << 2, 4 >>, "L" >>,
       << PlayerB, << 6, 2 >>, "L" >>, << PlayerA, << 2, 3 >>, "L" >>,
       << PlayerB, << 6, 0 >>, "R" >>, << PlayerA, << 2, 2 >>, "L" >>,
       << PlayerB, << 6, 2 >>, "L" >>, << PlayerA, << 2, 1 >>, "L" >>,
       << PlayerB, << 6, 0 >>, "R" >>, << PlayerA, << 0, 6 >>, "B" >>,
       << PlayerB, << 6, 2 >>, "L" >>, << PlayerA, << 1, 6 >>, "B" >>,
       << PlayerB, << 6, 0 >>, "R" >>, << PlayerA, << 3, 6 >>, "L" >>,
       << PlayerB, << 6, 2 >>, "L" >>, << PlayerA, << 3, 5 >>, "L" >>,
       << PlayerB, << 6, 0 >>, "R" >>, << PlayerA, << 3, 4 >>, "L" >>,
       << PlayerB, << 6, 2 >>, "F" >>, << PlayerA, << 5, 6 >>, "L" >>,
       << PlayerB, << 6, 1 >>, "L" >>, << PlayerA, << 5, 5 >>, "L" >>,
       << PlayerB, << 6, 0 >>, "R" >>, << PlayerA, << 5, 4 >>, "L" >>,
       << PlayerB, << 6, 1 >>, "L" >>, << PlayerA, << 5, 3 >>, "L" >>,
       << PlayerB, << 6, 0 >>, "F" >>, << PlayerA, << 5, 1 >>, "B" >>,
       << PlayerB, << 5, 0 >>, "R" >>, << PlayerA, << 6, 1 >>, "F" >> >>

\* A second match, which leaves Script before its last call: PlayerA lets
\* the black marble out and, three calls later, pushes it back onto the left
\* edge between two occupied cells. The push that would take it off the edge
\* cell again is then the no-go move, and it is the only push of PlayerB
\* that would otherwise be accepted.
Variation ==
    SubSeq(Script, 1, Len(Script) - 1) \o
    << << PlayerA, << 6, 1 >>, "L" >>, << PlayerB, << 5, 1 >>, "B" >>,
       << PlayerA, << 0, 5 >>, "L" >>, << PlayerB, << 6, 1 >>, "F" >>,
       << PlayerA, << 5, 2 >>, "L" >> >>

\* A third match, in which PlayerB is the one to win by captures: PlayerB
\* pushes seven red marbles off the board, the last with its ninth call.
BlackMatch ==
    << << PlayerA, << 5, 6 >>, "L" >>, << PlayerB, << 0, 6 >>, "B" >>,
       << PlayerA, << 3, 6 >>, "L" >>, << PlayerB, << 1, 6 >>, "B" >>,
       << PlayerA, << 5, 4 >>, "F" >>, << PlayerB, << 3, 6 >>, "L" >>,
       << PlayerA, << 4, 4 >>, "F" >>, << PlayerB, << 3, 5 >>, "L" >>,
       << PlayerA, << 0, 0 >>, "R" >>, << PlayerB, << 3, 4 >>, "L" >>,
       << PlayerA, << 2, 4 >>, "L" >>, << PlayerB, << 3, 3 >>, "L" >>,
       << PlayerA, << 0, 1 >>, "B" >>, << PlayerB, << 3, 2 >>, "L" >>,
       << PlayerA, << 0, 2 >>, "R" >>, << PlayerB, << 3, 1 >>, "L" >>,
       << PlayerA, << 0, 3 >>, "R" >>, << PlayerB, << 1, 5 >>, "F" >> >>

\* A fourth match, in which PlayerA is the one left without a legal move:
\* PlayerB pushes seven white marbles off the board, and its tenth call
\* leaves the two white marbles that remain, at (3,1) and (3,2), with an
\* occupied cell on every side.
WalledMatch ==
    << << PlayerA, << 2, 6 >>, "L" >>, << PlayerB, << 0, 5 >>, "B" >>,
       << PlayerA, << 0, 1 >>, "B" >>, << PlayerB, << 1, 5 >>, "B" >>,
       << PlayerA, << 0, 0 >>, "B" >>, << PlayerB, << 2, 5 >>, "L" >>,
       << PlayerA, << 5, 6 >>, "L" >>, << PlayerB, << 2, 4 >>, "L" >>,
       << PlayerA, << 1, 0 >>, "B" >>, << PlayerB, << 3, 5 >>, "B" >>,
       << PlayerA, << 1, 1 >>, "R" >>, << PlayerB, << 4, 5 >>, "B" >>,
       << PlayerA, << 1, 2 >>, "B" >>, << PlayerB, << 5, 5 >>, "B" >>,
       << PlayerA, << 2, 0 >>, "R" >>, << PlayerB, << 6, 5 >>, "R" >>,
       << PlayerA, << 2, 1 >>, "B" >>, << PlayerB, << 2, 4 >>, "L" >>,
       << PlayerA, << 2, 2 >>, "B" >>, << PlayerB, << 2, 3 >>, "L" >> >>

\* The matches the search follows.
Matches == {Script, Variation, BlackMatch, WalledMatch}

\* How many accepted calls the search makes away from the matches.
MaxFree == 1

\* The position of a search that has left the matches.
OffScript == 0 - 1

VARIABLES
    players, winner, turn, board, red, white, black,
    no_go_move, captured_marble, temp_board,
    \* The last make_move call: who called, what it returned, and the lines of
    \* the return statements that ended it (CallNone before any call).
    call,
    \* The last make_move call that returned True: its arguments, the board
    \* it found and the marble it pushed off, and the caller and the board
    \* found of the one before it (MoveNone before any such call).
    last_move,
    \* The search's place in the match it follows, and the accepted calls
    \* made away from the matches.
    pos, free

vars == << players, winner, turn, board, red, white, black,
           no_go_move, captured_marble, temp_board, call, last_move, pos, free >>

\* The fields of the object.
fields == << players, winner, turn, board, red, white, black,
             no_go_move, captured_marble, temp_board >>

CallNone == [playername |-> None, ret |-> FALSE, line |-> 0, push_line |-> 0]
MoveNone == [playername |-> None, coordinates |-> << >>, direction |-> None,
             before |-> << >>, captured |-> None,
             previous_playername |-> None, previous_before |-> << >>]

\* The object, as the record the methods take.
Self ==
    [ players |-> players, winner |-> winner, turn |-> turn, board |-> board,
      red |-> red, white |-> white, black |-> black, no_go_move |-> no_go_move,
      captured_marble |-> captured_marble, temp_board |-> temp_board ]

\* game = KubaGame(('PlayerA', 'W'), ('PlayerB', 'B'))
Init ==
    LET game == KubaGame(<< PlayerA, "W" >>, << PlayerB, "B" >>)
    IN  /\ players = game.players
        /\ winner = game.winner
        /\ turn = game.turn
        /\ board = game.board
        /\ red = game.red
        /\ white = game.white
        /\ black = game.black
        /\ no_go_move = game.no_go_move
        /\ captured_marble = game.captured_marble
        /\ temp_board = game.temp_board
        /\ call = CallNone
        /\ last_move = MoveNone
        /\ pos = 0
        /\ free = 0

\* The call is the next one of a match the search is following: pos calls
\* of it have been made, the last of them last_move.
Scripted(playername, coordinates, direction) ==
    /\ pos # OffScript
    /\ \E match \in Matches :
         /\ pos < Len(match)
         /\ match[pos + 1] = << playername, coordinates, direction >>
         /\ pos > 0 => match[pos] = << last_move.playername, last_move.coordinates,
                                      last_move.direction >>

\* The arguments a call reads before it returns decide the state it leaves;
\* a call that returns before it reads an argument is taken once, with the
\* first value of that argument, instead of once for every value of it.
\* Lines 161 and 165 return before coordinates is read.
CoordinatesRead(playername, scan) ==
    IF make_move_scanned(Self, playername, << 0, 0 >>, "L", scan).line \in {161, 165}
    THEN {<< 0, 0 >>}
    ELSE Coordinates

\* Lines 161, 165, 170, 185, 190 and 214 return before direction is read.
DirectionsRead(playername, coordinates, scan) ==
    IF make_move_scanned(Self, playername, coordinates, "L", scan).line
           \in {161, 165, 170, 185, 190, 214}
    THEN {"L"}
    ELSE Directions

\* game.make_move(playername, coordinates, direction); scan is the call's
\* legal-move scan, ScanFor(Self, playername).
MakeMove(playername, coordinates, direction, scan) ==
    \E r \in {make_move_scanned(Self, playername, coordinates, direction, scan)} :
    LET scripted == Scripted(playername, coordinates, direction)
    IN  /\ r.ret => (scripted \/ free < MaxFree)
        /\ players' = r.self.players
        /\ winner' = r.self.winner
        /\ turn' = r.self.turn
        /\ board' = r.self.board
        /\ red' = r.self.red
        /\ white' = r.self.white
        /\ black' = r.self.black
        /\ no_go_move' = r.self.no_go_move
        /\ captured_marble' = r.self.captured_marble
        /\ temp_board' = r.self.temp_board
        /\ call' = [playername |-> playername, ret |-> r.ret,
                    line |-> r.line, push_line |-> r.push_line]
        /\ last_move' = IF r.ret
                        THEN [playername |-> playername, coordinates |-> coordinates,
                              direction |-> direction, before |-> board,
                              captured |-> r.self.captured_marble,
                              previous_playername |-> last_move.playername,
                              previous_before |-> last_move.before]
                        ELSE last_move
        /\ pos' = IF ~r.ret THEN pos ELSE IF scripted THEN pos + 1 ELSE OffScript
        /\ free' = IF r.ret /\ ~scripted THEN free + 1 ELSE free

Next ==
    \E playername \in PlayerNames :
        \E scan \in {ScanFor(Self, playername)} :
            \E coordinates \in CoordinatesRead(playername, scan) :
                \E direction \in DirectionsRead(playername, coordinates, scan) :
                    MakeMove(playername, coordinates, direction, scan)

Spec == Init /\ [][Next]_vars

(***************************************************************************)
(* What the properties below are stated with.                              *)
(***************************************************************************)

Registered == {PlayerA, PlayerB}
OtherName(name) == IF name = PlayerA THEN PlayerB ELSE PlayerA
PlayerOf(name) == IF players[1].name = name THEN players[1] ELSE players[2]
ColorOf(name) == PlayerOf(name).color
Letters == {"L", "R", "F", "B"}
Opposite(letter) ==
    IF letter = "L" THEN "R" ELSE IF letter = "R" THEN "L"
    ELSE IF letter = "F" THEN "B" ELSE "F"

\* The number of cells of board b that hold the given marble.
Count(b, marble) == Cardinality({c \in Cells : b[c[1]][c[2]] = marble})
MarblesOnBoard(b) == Count(b, "R") + Count(b, "W") + Count(b, "B")
Captures == players[1].red + players[1].opponent_marbles
            + players[2].red + players[2].opponent_marbles

\* The last cell of the board from cell c in the direction of the letter.
EdgeCell(c, letter) ==
    IF letter = "L" THEN << c[1], 0 >>
    ELSE IF letter = "R" THEN << c[1], Last >>
    ELSE IF letter = "F" THEN << 0, c[2] >>
    ELSE << Last, c[2] >>

\* The cells from c to the edge of the board in the direction of the letter,
\* c and the edge cell included.
Ahead(c, letter) ==
    IF letter = "L" THEN {d \in Cells : d[1] = c[1] /\ d[2] <= c[2]}
    ELSE IF letter = "R" THEN {d \in Cells : d[1] = c[1] /\ d[2] >= c[2]}
    ELSE IF letter = "F" THEN {d \in Cells : d[2] = c[2] /\ d[1] <= c[1]}
    ELSE {d \in Cells : d[2] = c[2] /\ d[1] >= c[1]}

\* On board b a push from c in that direction finds no empty cell up to the
\* edge, where a marble of the given colour stands: it would push that
\* marble off the board.
PushesOff(b, c, letter, color) ==
    /\ \A d \in Ahead(c, letter) : b[d[1]][d[2]] # "X"
    /\ b[EdgeCell(c, letter)[1]][EdgeCell(c, letter)[2]] = color

\* On board b a push from c in that direction finds its first empty cell on
\* the edge of the board: the marble at the head of the run lands there.
LandsOnEdge(b, c, letter) ==
    /\ b[EdgeCell(c, letter)[1]][EdgeCell(c, letter)[2]] = "X"
    /\ \A d \in Ahead(c, letter) \ {EdgeCell(c, letter)} : b[d[1]][d[2]] # "X"

\* Some push of a marble of the player's colour is accepted on the object as
\* it stands (its no-go move included).
HasPush(self, player) ==
    \E c \in Cells, letter \in Letters :
        /\ self.board[c[1]][c[2]] = player.color
        /\ RequestedPush(self, c, letter, player).ret

\* What the claims call the match state: everything but the scratch fields.
MatchState(self) ==
    << self.board, self.white, self.black, self.red, self.players,
       self.no_go_move, self.turn, self.winner >>
\* The match state without the active player and the winner.
BoardState(self) ==
    << self.board, self.white, self.black, self.red, self.players, self.no_go_move >>

(***************************************************************************)
(* The claims.                                                             *)
(***************************************************************************)

\* C1: the marbles on the board (R, W and B cells) are never more than they
\* were before the last accepted move, and are 29 minus the captures the two
\* players have recorded (red and opponent counters of both).
C1_MarbleConservation ==
    /\ MarblesOnBoard(board) = 29 - Captures
    /\ last_move # MoveNone => MarblesOnBoard(board) <= MarblesOnBoard(last_move.before)

\* C2: a call whose push would push a marble of the caller's own colour off
\* the board returns False and leaves the board as it was; and a call that
\* returned True left as many marbles of the caller's colour on the board as
\* it found.
C2_NoSelfElimination ==
    /\ \A playername \in Registered :
         \A scan \in {ScanFor(Self, playername)} :
           \A c \in Cells, letter \in Letters :
             PushesOff(board, c, letter, ColorOf(playername)) =>
               LET r == make_move_scanned(Self, playername, c, letter, scan)
               IN  ~r.ret /\ r.self.board = board
    /\ call.ret = TRUE =>
         Count(board, ColorOf(call.playername))
             >= Count(last_move.before, ColorOf(call.playername))

\* C2's case: the call just made asked for a push that would push the
\* caller's own marble off the board, was refused at the own-colour test of
\* the push routine, and the board still holds all the caller's marbles.
C2_Witness ==
    /\ call.ret = FALSE
    /\ call.line = 237
    /\ call.push_line \in {311, 391, 470, 549}
    /\ \E c \in Cells, letter \in Letters :
         /\ board[c[1]][c[2]] = ColorOf(call.playername)
         /\ PushesOff(board, c, letter, ColorOf(call.playername))

\* C3: when two accepted moves follow each other, the first by one player
\* and the second by the other, the board after the second is not the board
\* as it was before the first.
C3_NoUndo ==
    (/\ last_move # MoveNone
     /\ last_move.previous_playername = OtherName(last_move.playername))
        => board # last_move.previous_before

\* The object with no move forbidden: what it would be had the last move
\* imposed no repetition restriction.
Unrestricted == [Self EXCEPT !.no_go_move = NoneTuple]

\* C4 as the specification states it: right after X's accepted push at
\* (r,c) in direction D with no capture, Y's request at (r,c) in the
\* opposite direction is rejected, and every other request by Y is accepted
\* or rejected as it would be with no move forbidden.
C4_OnlyVacatedCellRestricted ==
    (call.ret = TRUE /\ last_move.captured = None) =>
        LET Y    == OtherName(last_move.playername)
            back == Opposite(last_move.direction)
        IN  \A scan \in {ScanFor(Self, Y)}, free_scan \in {ScanFor(Unrestricted, Y)} :
              /\ ~make_move_scanned(Self, Y, last_move.coordinates, back, scan).ret
              /\ \A c \in Coordinates, d \in Directions :
                   << c, d >> # << last_move.coordinates, back >> =>
                     make_move_scanned(Self, Y, c, d, scan).ret
                       = make_move_scanned(Unrestricted, Y, c, d, free_scan).ret

\* C4, amended: right after X's accepted push at (r,c) in direction D with no
\* capture, Y's request at (r,c) in the opposite direction is rejected; when
\* the marble at the head of the pushed run landed on the edge cell e of the
\* board, Y's request at e in the opposite direction is rejected; and every
\* request by Y other than the one at e in the opposite direction is
\* accepted or rejected as it would be with no move forbidden.
C4_EdgeCellRestricted ==
    (call.ret = TRUE /\ last_move.captured = None) =>
        LET Y    == OtherName(last_move.playername)
            back == Opposite(last_move.direction)
            e    == EdgeCell(last_move.coordinates, last_move.direction)
        IN  \A scan \in {ScanFor(Self, Y)}, free_scan \in {ScanFor(Unrestricted, Y)} :
              /\ ~make_move_scanned(Self, Y, last_move.coordinates, back, scan).ret
              /\ LandsOnEdge(last_move.before, last_move.coordinates, last_move.direction)
                   => ~make_move_scanned(Self, Y, e, back, scan).ret
              /\ \A c \in Coordinates, d \in Directions :
                   << c, d >> # << e, back >> =>
                     make_move_scanned(Self, Y, c, d, scan).ret
                       = make_move_scanned(Unrestricted, Y, c, d, free_scan).ret

\* C4's case: X's push with no capture has just put the head of the run on
\* the edge cell, and Y's request there in the opposite direction, which
\* would be accepted were no move forbidden, is rejected.
C4_Witness ==
    /\ call.ret = TRUE
    /\ last_move.captured = None
    /\ LandsOnEdge(last_move.before, last_move.coordinates, last_move.direction)
    /\ LET Y    == OtherName(last_move.playername)
           back == Opposite(last_move.direction)
           e    == EdgeCell(last_move.coordinates, last_move.direction)
       IN  /\ ~make_move(Self, Y, e, back).ret
           /\ make_move(Unrestricted, Y, e, back).ret

\* C5 as the specification states it: when no winner is set and the active
\* player has no accepted push (any cell of that colour, any of the four
\* directions, under the current no-go move), every request of that player
\* returns False and sets the winner to the opponent.
C5_AnyRequestEndsTheMatch ==
    \A playername \in Registered :
        (winner = None /\ turn = playername /\ ~HasPush(Self, PlayerOf(playername))) =>
            \A scan \in {ScanFor(Self, playername)} :
                \A c \in Coordinates, d \in Directions :
                    LET r == make_move_scanned(Self, playername, c, d, scan)
                    IN  ~r.ret /\ r.self.winner = OtherName(playername)

\* C5, amended: in such a state every request of that player returns False;
\* it sets the winner to the opponent when its coordinates are on the board
\* and name a cell of the player's colour (whatever the direction), and
\* leaves the winner unset otherwise.
C5_OwnCellRequestEndsTheMatch ==
    \A playername \in Registered :
        (winner = None /\ turn = playername /\ ~HasPush(Self, PlayerOf(playername))) =>
            \A scan \in {ScanFor(Self, playername)} :
                \A c \in Coordinates, d \in Directions :
                    LET r == make_move_scanned(Self, playername, c, d, scan)
                    IN  /\ ~r.ret
                        /\ r.self.winner =
                             IF c \in Cells /\ board[c[1]][c[2]] = ColorOf(playername)
                             THEN OtherName(playername) ELSE None

\* C5's case: the call just made was by a player with no accepted push, it
\* returned False from the no-legal-move test and the opponent is the winner.
C5_Witness ==
    /\ call.ret = FALSE
    /\ call.line = 214
    /\ call.playername \in Registered
    /\ winner = OtherName(call.playername)
    /\ ~HasPush(Self, PlayerOf(call.playername))

\* C6: a call that returned True set the winner to the caller when it left
\* the caller's red counter at 7 or more or the caller's opponent-marble
\* counter at 8 or more, and left the winner unset otherwise.
C6_WinThresholds ==
    call.ret = TRUE =>
        LET p == PlayerOf(call.playername)
        IN  winner = IF p.red >= 7 \/ p.opponent_marbles >= 8
                     THEN call.playername ELSE None

\* C6's case: the call just made captured the caller's seventh red marble,
\* returned True and made the caller the winner.
C6_Witness ==
    /\ call.ret = TRUE
    /\ last_move.captured = "R"
    /\ PlayerOf(call.playername).red = 7
    /\ winner = call.playername

\* C7: once the winner is set, every call, by any name with any coordinates
\* and direction, returns False and leaves winner, board, tallies, counters,
\* no-go move and turn as they are.
C7_FinishedIsTerminal ==
    winner # None =>
        \A playername \in PlayerNames :
            \A scan \in {ScanFor(Self, playername)} :
                \A c \in Coordinates, d \in Directions :
                    LET r == make_move_scanned(Self, playername, c, d, scan)
                    IN  ~r.ret /\ MatchState(r.self) = MatchState(Self)

\* C7's case: a call made by the player to move after the winner was set
\* has returned False from the winner test.
C7_Witness ==
    /\ winner # None
    /\ call.ret = FALSE
    /\ call.line = 165

\* C8: after a call that returned True the turn is the other registered
\* player's, two accepted moves in a row are by different players, and a call
\* by a registered player who is not the one to move returns False and
\* leaves board, tallies, counters and no-go move as they are.
C8_TurnAlternation ==
    /\ call.ret = TRUE =>
         call.playername \in Registered /\ turn = OtherName(call.playername)
    /\ (last_move # MoveNone /\ last_move.previous_playername # None) =>
         last_move.previous_playername = OtherName(last_move.playername)
    /\ \A playername \in Registered :
         (turn # None /\ turn # playername) =>
            \A scan \in {ScanFor(Self, playername)} :
                \A c \in Coordinates, d \in Directions :
                    LET r == make_move_scanned(Self, playername, c, d, scan)
                    IN  ~r.ret /\ BoardState(r.self) = BoardState(Self)

\* C8's case: after an accepted move the player who made it has called
\* again, out of turn, and the call returned False from the turn test.
C8_Witness ==
    /\ last_move # MoveNone
    /\ call.ret = FALSE
    /\ call.line = 161
    /\ call.playername = last_move.playername
    /\ turn = OtherName(call.playername)

\* C9 as the specification states it: a call that returns False leaves
\* board, tallies, counters, no-go move, turn and winner as they were.
C9_IdempotentRejection ==
    \A playername \in PlayerNames :
        \A scan \in {ScanFor(Self, playername)} :
            \A c \in Coordinates, d \in Directions :
                LET r == make_move_scanned(Self, playername, c, d, scan)
                IN  ~r.ret => MatchState(r.self) = MatchState(Self)

\* C9, amended: a call that returns False leaves board, tallies, counters
\* and no-go move as they were; it leaves the turn as it was when the turn
\* was set, and sets it to the caller when it was unset and the caller is a
\* registered player; it leaves the winner as it was unless the caller has
\* no accepted push, when it sets the winner to the opponent.
C9_RejectionKeepsTheBoard ==
    \A playername \in PlayerNames :
        \A scan \in {ScanFor(Self, playername)} :
            \A c \in Coordinates, d \in Directions :
                LET r == make_move_scanned(Self, playername, c, d, scan)
                IN  ~r.ret =>
                      /\ BoardState(r.self) = BoardState(Self)
                      /\ turn # None => r.self.turn = turn
                      /\ (turn = None /\ playername \in Registered) => r.self.turn = playername
                      /\ r.self.winner # winner =>
                           /\ winner = None
                           /\ playername \in Registered
                           /\ r.self.winner = OtherName(playername)
                           /\ ~HasPush(Self, PlayerOf(playername))

\* C9's case: the first call of the match, by a registered player, asked
\* for a push the push routine refused; it returned False, nothing was
\* moved or captured, and the turn is now the caller's.
C9_Witness ==
    /\ last_move = MoveNone
    /\ call.ret = FALSE
    /\ call.line = 237
    /\ call.playername \in Registered
    /\ turn = call.playername
    /\ board = InitialBoard
    /\ winner = None

\* C10: a call by a name that is not a registered player's returns False
\* and leaves the turn as it was, and the turn is always unset or the name
\* of a registered player.
C10_UnknownNameLeavesTheTurn ==
    /\ turn \in {None} \cup Registered
    /\ \A scan \in {ScanFor(Self, Stranger)} :
         \A c \in Coordinates, d \in Directions :
             LET r == make_move_scanned(Self, Stranger, c, d, scan)
             IN  ~r.ret /\ r.self.turn = turn

\* C11 as the specification states it: the board of a new game holds 13 red,
\* 8 white and 8 black marbles, and the tuple get_marble_count returns
\* (white, black, red) always counts the W, B and R cells of the board.
C11_TallyConsistency ==
    /\ << Count(InitialBoard, "W"), Count(InitialBoard, "B"), Count(InitialBoard, "R") >>
         = << 8, 8, 13 >>
    /\ get_marble_count(Self)
         = << Count(board, "W"), Count(board, "B"), Count(board, "R") >>

\* C12: each player's red counter is between 0 and 13, each player's
\* opponent-marble counter is between 0 and 8, and none of the three
\* tallies get_marble_count returns is negative.
C12_CounterBounds ==
    /\ \A i \in 1 .. 2 :
         /\ players[i].red \in 0 .. 13
         /\ players[i].opponent_marbles \in 0 .. 8
    /\ \A i \in 1 .. 3 : get_marble_count(Self)[i] >= 0

\* C12's case: the call just made pushed off the last marble of a colour:
\* the caller's opponent-marble counter stands at 8 and that tally at 0.
C12_Witness ==
    /\ call.ret = TRUE
    /\ last_move.captured = "B"
    /\ PlayerOf(call.playername).opponent_marbles = 8
    /\ black = 0

\* C13 as the specification states it: after a call that returned True for
\* a push from (r,c) in direction D, the no-go move is ((r,c), the direction
\* opposite to D) when no marble was pushed off the board, and is cleared
\* when one was.
C13_ForbiddenMoveRecorded ==
    call.ret = TRUE =>
        no_go_move = IF last_move.captured = None
                     THEN << last_move.coordinates[1], last_move.coordinates[2],
                             Opposite(last_move.direction) >>
                     ELSE NoneTuple

\* C14: a call that returns False leaves the board, the three tallies, both
\* players' counters and the no-go move as they were; and the legal-move
\* scan of a call, whose trial pushes overwrite the no-go move, hands the
\* object on with the board and the no-go move the call found.
C14_RejectionFrame ==
    \A playername \in PlayerNames :
        \A scan \in {ScanFor(Self, playername)} :
            /\ scan.self.board = board
            /\ scan.self.no_go_move = no_go_move
            /\ \A c \in Coordinates, d \in Directions :
                 LET r == make_move_scanned(Self, playername, c, d, scan)
                 IN  ~r.ret =>
                       /\ r.self.board = board
                       /\ get_marble_count(r.self) = get_marble_count(Self)
                       /\ r.self.players = players
                       /\ r.self.no_go_move = no_go_move

\* C14's case: a no-go move is recorded, the player to move has made a call
\* that went through the legal-move scan and returned False, the trial
\* pushes of that scan left another no-go move behind, and the recorded one
\* is still there.
C14_Witness ==
    /\ call.ret = FALSE
    /\ call.line \in {230, 237}
    /\ call.playername \in Registered
    /\ turn = call.playername
    /\ no_go_move # NoneTuple
    /\ ScanRows(Self, PlayerOf(call.playername), 0, FALSE).self.no_go_move # no_go_move

\* C15: the legal-move scan of a call reports that the caller can move
\* exactly when some cell of the caller's colour has a push, in one of the
\* four directions, that is accepted under the no-go move the call found; so
\* a player whose one push that would otherwise be accepted is the no-go
\* move is reported as unable to move.
C15_MobilityCheck ==
    \A playername \in Registered :
        /\ ScanFor(Self, playername).can_move = HasPush(Self, PlayerOf(playername))
        /\ (\A c \in Cells, letter \in Letters :
               (/\ board[c[1]][c[2]] = ColorOf(playername)
                /\ RequestedPush(Unrestricted, c, letter, PlayerOf(playername)).ret)
                   => IsNoGo(Self, c, letter))
              => ~ScanFor(Self, playername).can_move

\* C15's case: the player to move has a push that would be accepted were no
\* move forbidden, that push is the no-go move, and the scan reports that
\* the player cannot move.
C15_Witness ==
    /\ winner = None
    /\ turn \in Registered
    /\ no_go_move # NoneTuple
    /\ HasPush(Unrestricted, PlayerOf(turn))
    /\ ~ScanFor(Self, turn).can_move

\* The direction of a letter, as the change of (row, column) by one cell.
Step(letter) ==
    IF letter = "L" THEN << 0, 0 - 1 >>
    ELSE IF letter = "R" THEN << 0, 1 >>
    ELSE IF letter = "F" THEN << 0 - 1, 0 >>
    ELSE << 1, 0 >>

\* The cell k cells from c in the direction of the letter.
CellAt(c, letter, k) == << c[1] + k * Step(letter)[1], c[2] + k * Step(letter)[2] >>

\* The number of cells between c and the edge of the board in the direction
\* of the letter, the edge cell included and c not.
Reach(c, letter) == Cardinality(Ahead(c, letter)) - 1

\* The cells a push from c moves a marble into: those after c up to the first
\* empty cell, or up to the edge when there is none.
MovedInto(b, c, letter) ==
    {k \in 1 .. Reach(c, letter) :
        \A j \in 1 .. (k - 1) : b[CellAt(c, letter, j)[1]][CellAt(c, letter, j)[2]] # "X"}

\* Board b after the run of marbles that starts at c has moved one cell in
\* the direction of the letter: c is empty, every cell the run moves into
\* holds what the cell before it held, every other cell is as it was.
ShiftedBoard(b, c, letter) ==
    [row \in Rows |-> [column \in Rows |->
        IF << row, column >> = c THEN "X"
        ELSE IF \E k \in MovedInto(b, c, letter) : CellAt(c, letter, k) = << row, column >>
             THEN LET k == CHOOSE k \in MovedInto(b, c, letter) :
                               CellAt(c, letter, k) = << row, column >>
                  IN  b[CellAt(c, letter, k - 1)[1]][CellAt(c, letter, k - 1)[2]]
             ELSE b[row][column]]]

\* C16: after a call that returned True the board is the board the call
\* found with the run of marbles from the requested cell moved one cell in
\* the requested direction (the marble on the edge cell gone when the run
\* reached the edge), the requested cell empty and every other cell as it
\* was: the board of the requested push, not of a trial push of the scan.
C16_PushEffect ==
    call.ret = TRUE =>
        board = ShiftedBoard(last_move.before, last_move.coordinates, last_move.direction)

\* C16's case: the call just made pushed a run of at least three marbles and
\* took the last of them off the board.
C16_Witness ==
    /\ call.ret = TRUE
    /\ last_move.captured # None
    /\ Cardinality(MovedInto(last_move.before, last_move.coordinates, last_move.direction)) >= 2
    /\ Count(board, last_move.captured) = Count(last_move.before, last_move.captured) - 1

\* The marble a push from c in the direction of the letter takes off board
\* b: the one on the edge cell when no cell from c to the edge is empty,
\* None otherwise.
PushedOff(b, c, letter) ==
    IF \A d \in Ahead(c, letter) : b[d[1]][d[2]] # "X"
    THEN b[EdgeCell(c, letter)[1]][EdgeCell(c, letter)[2]]
    ELSE None

\* C17: a call that returns True and pushes a red marble off the board adds
\* 1 to the caller's red counter and takes 1 from the red tally; one that
\* pushes a marble of the opponent's colour off adds 1 to the caller's
\* opponent-marble counter and takes 1 from that colour's tally; nothing
\* else among the counters and tallies changes, and with no marble pushed
\* off none changes; the other player's counters never change.
C17_CaptureBookkeeping ==
    \A playername \in Registered :
        \A scan \in {ScanFor(Self, playername)} :
            \A c \in Cells, d \in Letters :
                LET r   == make_move_scanned(Self, playername, c, d, scan)
                    off == PushedOff(board, c, d)
                    i   == CurrOf(Self, playername) + 1
                    One(marble) == IF off = marble THEN 1 ELSE 0
                IN  r.ret =>
                      /\ r.self.players[3 - i] = players[3 - i]
                      /\ r.self.players[i].name = players[i].name
                      /\ r.self.players[i].color = players[i].color
                      /\ r.self.players[i].red = players[i].red + One("R")
                      /\ r.self.players[i].opponent_marbles
                           = players[i].opponent_marbles + One(ColorOf(OtherName(playername)))
                      /\ off # ColorOf(playername)
                      /\ r.self.red = red - One("R")
                      /\ r.self.white = white - One("W")
                      /\ r.self.black = black - One("B")

\* C17's case: the call just made, by the second player of the list, pushed
\* a marble of the first player's colour off the board, the first marble
\* that player has captured.
C17_Witness ==
    /\ call.ret = TRUE
    /\ call.playername = players[2].name
    /\ last_move.captured = players[1].color
    /\ players[2].opponent_marbles = 1
    /\ players[2].red = 0
    /\ white = 7

\* The cell next to c on the side the push comes from.
BehindCell(c, letter) == CellAt(c, letter, 0 - 1)

\* That cell is on the board and holds a marble.
BehindOccupied(b, c, letter) ==
    /\ BehindCell(c, letter) \in Cells
    /\ b[BehindCell(c, letter)[1]][BehindCell(c, letter)[2]] # "X"

\* C18: a call for a push from a cell whose neighbour on the side opposite
\* to the direction is on the board and holds a marble returns False; a call
\* for a push from a cell with no such neighbour on the board is never
\* refused by the space test of the push routine; and every call that
\* returned True found the cell behind its origin empty or off the board.
C18_SpaceBehind ==
    /\ \A playername \in Registered :
         \A scan \in {ScanFor(Self, playername)} :
             \A c \in Cells, d \in Letters :
                 LET r == make_move_scanned(Self, playername, c, d, scan)
                 IN  /\ BehindOccupied(board, c, d) => ~r.ret
                     /\ BehindCell(c, d) \notin Cells
                          => r.push_line \notin {293, 373, 452, 531}
    /\ call.ret = TRUE =>
         ~BehindOccupied(last_move.before, last_move.coordinates, last_move.direction)

\* C18's case: the call just made asked to push one of the caller's marbles
\* that has a marble behind it, and the push routine refused it at its
\* space test.
C18_Witness ==
    /\ call.ret = FALSE
    /\ call.line = 237
    /\ call.push_line \in {293, 373, 452, 531}
    /\ \E c \in Cells, d \in Letters :
         /\ board[c[1]][c[2]] = ColorOf(call.playername)
         /\ BehindOccupied(board, c, d)

\* C19 as the specification states it: the first call by a registered player
\* leaves the turn that player's when it returns False (no registered
\* player has called as long as the turn is unset, and the turn is a
\* registered player's from that call on); and once the turn is a registered
\* player's, a call changes it only by returning True, and then to the other
\* registered player.
C19_ActivePlayerStability ==
    \A playername \in Registered :
        \A scan \in {ScanFor(Self, playername)} :
            \A c \in Coordinates, d \in Directions :
                LET r == make_move_scanned(Self, playername, c, d, scan)
                IN  /\ (turn \notin Registered /\ ~r.ret) => r.self.turn = playername
                    /\ (turn \in Registered /\ r.self.turn # turn) =>
                          r.ret /\ r.self.turn = OtherName(turn)

\* The board seen in a mirror that swaps left and right, and the board with
\* rows and columns exchanged; a cell, a letter and a no-go move likewise.
MirrorBoard(b) ==
    IF b = NoneTuple THEN NoneTuple
    ELSE [row \in Rows |-> [column \in Rows |-> b[row][Last - column]]]
TransposeBoard(b) ==
    IF b = NoneTuple THEN NoneTuple
    ELSE [row \in Rows |-> [column \in Rows |-> b[column][row]]]
MirrorCell(c) == << c[1], Last - c[2] >>
TransposeCell(c) == << c[2], c[1] >>
MirrorLetter(letter) ==
    IF letter = "L" THEN "R" ELSE IF letter = "R" THEN "L" ELSE letter
TransposeLetter(letter) ==
    IF letter = "L" THEN "F" ELSE IF letter = "F" THEN "L"
    ELSE IF letter = "R" THEN "B" ELSE "R"
MirrorNoGo(m) ==
    IF m = NoneTuple THEN NoneTuple
    ELSE << m[1], Last - m[2], MirrorLetter(m[3]) >>
TransposeNoGo(m) ==
    IF m = NoneTuple THEN NoneTuple
    ELSE << m[2], m[1], TransposeLetter(m[3]) >>

\* The object with its board and no-go move mirrored, or transposed.
MirrorGame(self) ==
    [self EXCEPT !.board = MirrorBoard(self.board),
                 !.no_go_move = MirrorNoGo(self.no_go_move)]
TransposeGame(self) ==
    [self EXCEPT !.board = TransposeBoard(self.board),
                 !.no_go_move = TransposeNoGo(self.no_go_move)]

\* What a push routine leaves: its return value, the marble it recorded as
\* captured, its temporary board and the no-go move; and that outcome
\* mirrored, or transposed.
Outcome(p) ==
    << p.ret, p.self.captured_marble, p.self.temp_board, p.self.no_go_move >>
MirrorOutcome(o) == << o[1], o[2], MirrorBoard(o[3]), MirrorNoGo(o[4]) >>
TransposeOutcome(o) == << o[1], o[2], TransposeBoard(o[3]), TransposeNoGo(o[4]) >>

\* The object with another no-go move.
WithNoGo(self, m) == [self EXCEPT !.no_go_move = m]

\* The no-go moves a push from c is tried under: the one of the game, none,
\* and the four that name c.
NoGoMoves(c) ==
    {no_go_move, NoneTuple} \cup {<< c[1], c[2], letter >> : letter \in Letters}

\* C20: on every board a move leaves (and on the first one), for either
\* player, every cell as origin and every no-go move of NoGoMoves:
\* move_left gives what move_right gives on the mirrored board, origin and
\* no-go move, mirrored back; move_forward
\* gives what move_left gives on the transposed ones, and move_backward what
\* move_right gives on them, transposed back; return value, captured
\* marble, temporary board and no-go move all compared.
C20_DirectionalSymmetry ==
    (call.ret = TRUE \/ call = CallNone) =>
        \A i \in 1 .. 2, c \in Cells :
            /\ \A m \in NoGoMoves(c) :
                 Outcome(move_left(WithNoGo(Self, m), c, players[i]))
                   = MirrorOutcome(Outcome(move_right(MirrorGame(WithNoGo(Self, m)),
                                                      MirrorCell(c), players[i])))
            /\ \A m \in NoGoMoves(c) :
                 Outcome(move_forward(WithNoGo(Self, m), c, players[i]))
                   = TransposeOutcome(Outcome(move_left(TransposeGame(WithNoGo(Self, m)),
                                                        TransposeCell(c), players[i])))
            /\ \A m \in NoGoMoves(c) :
                 Outcome(move_backward(WithNoGo(Self, m), c, players[i]))
                   = TransposeOutcome(Outcome(move_right(TransposeGame(WithNoGo(Self, m)),
                                                         TransposeCell(c), players[i])))

\* C20's case: on the board the call just made has left, with a no-go move
\* recorded, move_left and move_right on the mirrored board both accept a
\* push that takes a marble off, both refuse one that would take the
\* player's own marble off, and the push that is the no-go move of the game
\* is refused as such.
C20_Witness ==
    /\ call.ret = TRUE
    /\ no_go_move # NoneTuple
    /\ \E i \in 1 .. 2, c \in Cells :
         /\ move_left(Self, c, players[i]).ret
         /\ move_left(Self, c, players[i]).self.captured_marble # None
         /\ move_right(MirrorGame(Self), MirrorCell(c), players[i]).ret
    /\ \E i \in 1 .. 2, c \in Cells :
         /\ move_left(Self, c, players[i]).line = 311
         /\ move_right(MirrorGame(Self), MirrorCell(c), players[i]).line = 391
    /\ \E i \in 1 .. 2, c \in Cells, letter \in Letters :
         /\ RequestedPush(Self, c, letter, players[i]).line \in {323, 403, 482, 561}
         /\ board[c[1]][c[2]] = players[i].color

\* The winner is set by the call just made, as the caller's own win: the call
\* returned True, the new winner is the caller, and the call left the caller
\* with 7 or more red marbles or 8 or more opponent marbles captured.
WonByCapture ==
    /\ call'.ret = TRUE
    /\ call'.playername = winner'
    /\ \E i \in DOMAIN players' :
         /\ players'[i].name = winner'
         /\ players'[i].red >= 7 \/ players'[i].opponent_marbles >= 8

\* The winner is set by the call just made, as the caller's loss: the call
\* returned False, it was made by the new winner's opponent when the turn was
\* the caller's, and the caller's colour had no accepted push on the object
\* the call found.
WonByNoLegalMove ==
    /\ call'.ret = FALSE
    /\ call'.playername \in Registered
    /\ call'.playername = OtherName(winner')
    /\ turn = call'.playername
    /\ ~HasPush(Self, PlayerOf(call'.playername))

\* C21: winner soundness.  The winner is unset when the game is built; in
\* every state it is unset or the name of a registered player, and it is
\* unset whenever the turn is unset; and every call that changes the winner
\* finds it unset and sets it to a registered player in exactly one of two
\* ways: that player's own accepted move leaving the player with 7 or more
\* red or 8 or more opponent marbles captured, or a rejected request of that
\* player's opponent, made on the opponent's turn when the opponent's colour
\* had no accepted push.
C21_WinnerSoundness ==
    /\ winner = None
    /\ [](/\ winner \in Registered \cup {None}
          /\ turn = None => winner = None)
    /\ [][winner' # winner =>
            /\ winner = None
            /\ winner' \in Registered
            /\ WonByCapture \/ WonByNoLegalMove
            /\ ~(WonByCapture /\ WonByNoLegalMove)]_vars

\* C21's case: the second player of the list is the winner by a rejected
\* request of the first, who had no legal move (the winner's own captures are
\* below both thresholds); the winner has stayed set through a later call,
\* and the turn is set.
C21_Witness ==
    /\ winner = players[2].name
    /\ PlayerOf(winner).red < 7
    /\ PlayerOf(winner).opponent_marbles < 8
    /\ turn = OtherName(winner)
    /\ call.line = 165

====
